---- MODULE Spec2Model ----
(***************************************************************************)
(* Model of src/brainstorm.py: the two-stage document-to-report assistant. *)
(* A text is a sequence of characters (one-character strings), so that     *)
(* str.strip, str.replace, len and the f-string concatenations are         *)
(* computed on characters as the Python code computes them.                *)
(***************************************************************************)
EXTENDS Integers, Sequences, FiniteSets, TLC

VARIABLES
    key_simplify,          \* st.secrets OPENROUTER_API_KEY_SIMPLIFY ("" when absent)
    key_analysis,          \* st.secrets OPENROUTER_API_KEY_ANALYSIS ("" when absent)
    libs,                  \* DOCX_SUPPORT, PDF_SUPPORT, IMAGE_SUPPORT
    w_direction,           \* the research-direction text area (widget value)
    ss_uploaded_files,     \* st.session_state.uploaded_files
    ss_direction,          \* st.session_state.direction
    simplified_content,    \* st.session_state.simplified_content
    analysis_report,       \* st.session_state.analysis_report
    show_analysis_section, \* st.session_state.show_analysis_section
    prompts,               \* the six stored prompt fragments
    prompt_inputs,         \* the six settings text areas (widget values)
    run,                   \* record of the last script run (what the handler did)
    stage1_result,         \* what the latest completed simplify_content returned
    sx                     \* state of the sanitizer experiment (pure function)

vars == <<key_simplify, key_analysis, libs, w_direction, ss_uploaded_files,
          ss_direction, simplified_content, analysis_report,
          show_analysis_section, prompts, prompt_inputs, run, stage1_result, sx>>

----------------------------------------------------------------------------
(* Bounds of the model.                                                    *)

\* the largest number of files in one uploaded batch
MaxFiles == 2

\* the largest number of chunks an input of the sanitizer is built from
MaxChunks == 3

----------------------------------------------------------------------------
(* Characters and the string operations of Python the code uses.           *)

\* the characters str.strip() removes
Whitespace == {" ", "\n", "\t"}

\* n copies of the character c
Rep(c, n) == [i \in 1..n |-> c]

\* str.strip(): drop leading and trailing whitespace; lead and trail are the
\* numbers of whitespace characters dropped at the two ends
Strip(s) ==
    IF \A i \in 1..Len(s) : s[i] \in Whitespace THEN <<>>
    ELSE LET n == Len(s)
             lead == CHOOSE k \in 0..n :
                         /\ s[k + 1] \notin Whitespace
                         /\ \A j \in 1..k : s[j] \in Whitespace
             trail == CHOOSE k \in 0..n :
                         /\ s[n - k] \notin Whitespace
                         /\ \A j \in 1..k : s[n + 1 - j] \in Whitespace
         IN  SubSeq(s, lead + 1, n - trail)

\* whether old occurs in s at position i, for i + Len(old) - 1 <= Len(s)
OccursAt(s, old, i) ==
    /\ s[i] = old[1]
    /\ \A k \in 2..Len(old) : s[i + k - 1] = old[k]

\* str.replace(old, ''): remove the non-overlapping occurrences of old, found
\* in one scan from the left; the scan never looks at its own output.
\* ReplaceFrom is the scan from position i: copy up to the next occurrence,
\* skip it, go on behind it.
RECURSIVE ReplaceFrom(_, _, _)
ReplaceFrom(s, old, i) ==
    LET found == {j \in i..(Len(s) - Len(old) + 1) : OccursAt(s, old, j)}
    IN  IF found = {} THEN SubSeq(s, i, Len(s))
        ELSE LET m == CHOOSE j \in found : \A k \in found : j <= k
             IN  SubSeq(s, i, m - 1) \o ReplaceFrom(s, old, m + Len(old))

Remove(s, old) == ReplaceFrom(s, old, 1)

\* concatenation of a sequence of texts
RECURSIVE Concat(_)
Concat(ts) == IF ts = <<>> THEN <<>> ELSE Head(ts) \o Concat(Tail(ts))

----------------------------------------------------------------------------
(* String literals of the program.                                         *)

\* A character outside ASCII is written as the one-element token "uXXXX" of its
\* code point: it is one character of the text, as in Python's str.

\* src/brainstorm.py:89  (7 characters)
WarnEmptyPrefix ==
    <<"u8B66","u544A",":"," ","u6587","u4EF6"," ">>

\* src/brainstorm.py:89  (7 characters)
WarnEmptySuffix ==
    <<" ","u4E3A","u7A7A","u6216","u4E0D","u5B58","u5728">>

\* src/brainstorm.py:173  (13 characters)
ErrDocxPrefix ==
    <<"u8BFB","u53D6","D","O","C","X","u6587","u4EF6","u65F6","u51FA","u9519",":"," ">>

\* src/brainstorm.py:199  (9 characters)
ErrDocxFallbackPrefix ==
    <<"u5907","u9009","u65B9","u6CD5","u4E5F","u5931","u8D25",":"," ">>

\* src/brainstorm.py:220  (38 characters)
DocNotice ==
    <<"u6CE8","u610F","uFF1A",".","d","o","c","u683C","u5F0F","u4E0D","u5B8C","u5168","u652F",
      "u6301","uFF0C","u5EFA","u8BAE","u8F6C","u6362","u4E3A",".","d","o","c","x","u683C",
      "u5F0F","u3002","u5C1D","u8BD5","u8BFB","u53D6","u5185","u5BB9","u5982","u4E0B","uFF1A",
      "\n">>

\* src/brainstorm.py:222  (12 characters)
ErrDocPrefix ==
    <<"u8BFB","u53D6","D","O","C","u6587","u4EF6","u65F6","u51FA","u9519",":"," ">>

\* src/brainstorm.py:234  (12 characters)
ErrPdfPrefix ==
    <<"u8BFB","u53D6","P","D","F","u6587","u4EF6","u65F6","u51FA","u9519",":"," ">>

\* src/brainstorm.py:242  (10 characters)
ImgInfoA ==
    <<"[","u56FE","u50CF","u6587","u4EF6","uFF0C","u5C3A","u5BF8",":"," ">>

\* src/brainstorm.py:242  (5 characters)
ImgInfoB ==
    <<"uFF0C","u7C7B","u578B",":"," ">>

\* src/brainstorm.py:242  (22 characters)
ImgInfoC ==
    <<"u3002","u8BF7","u5728","u5206","u6790","u65F6","u8003","u8651","u6B64","u56FE","u50CF",
      "u53EF","u80FD","u5305","u542B","u7684","u89C6","u89C9","u5185","u5BB9","u3002","]">>

\* src/brainstorm.py:246  (11 characters)
ErrImgPrefix ==
    <<"u5904","u7406","u56FE","u50CF","u6587","u4EF6","u65F6","u51FA","u9519",":"," ">>

\* src/brainstorm.py:250  (7 characters)
ImgNoLibA ==
    <<"[","u56FE","u50CF","u6587","u4EF6",":"," ">>

\* src/brainstorm.py:271  (11 characters)
ErrTextPrefix ==
    <<"u8BFB","u53D6","u6587","u672C","u6587","u4EF6","u65F6","u51FA","u9519",":"," ">>

\* src/brainstorm.py:275  (9 characters)
ErrProcessPrefix ==
    <<"u5904","u7406","u6587","u4EF6","u65F6","u51FA","u9519",":"," ">>

\* src/brainstorm.py:328  (7 characters)
MarkToken ==
    <<"{",".","m","a","r","k","}">>

\* src/brainstorm.py:328  (12 characters)
UnderlineToken ==
    <<"{",".","u","n","d","e","r","l","i","n","e","}">>

\* src/brainstorm.py:342  (34 characters)
Stage1Sentinel ==
    <<"A","I","u5206","u6790","u672A","u80FD","u751F","u6210","u6709","u6548","u7ED3","u679C",
      "u3002","u8BF7","u68C0","u67E5","u6587","u6863","u5185","u5BB9","u662F","u5426","u76F8",
      "u5173","uFF0C","u6216","u8C03","u6574","u63D0","u793A","u8BCD","u8BBE","u7F6E","u3002">>

\* src/brainstorm.py:349  (11 characters)
ErrSimplifyPrefix ==
    <<"u5206","u6790","u8FC7","u7A0B","u4E2D","u53D1","u751F","u9519","u8BEF",":"," ">>

\* src/brainstorm.py:360  (52 characters)
InsufficientMsg ==
    <<"u65E0","u6CD5","u751F","u6210","u62A5","u544A","uFF0C","u56E0","u4E3A","u6587","u6863",
      "u5206","u6790","u9636","u6BB5","u672A","u80FD","u4EA7","u751F","u8DB3","u591F","u6DF1",
      "u5165","u7684","u5185","u5BB9","u3002","u8BF7","u8FD4","u56DE","u4E0A","u4E00","u6B65",
      "u91CD","u8BD5","uFF0C","u8C03","u6574","u7814","u7A76","u65B9","u5411","u6216","u4E0A",
      "u4F20","u66F4","u76F8","u5173","u7684","u6587","u6863","u3002">>

\* src/brainstorm.py:410  (66 characters)
Stage2FailMsg ==
    <<"u751F","u6210","u62A5","u544A","u5931","u8D25","u3002","A","I","u672A","u80FD","u751F",
      "u6210","u6709","u610F","u4E49","u7684","u5185","u5BB9","uFF0C","u53EF","u80FD","u662F",
      "u56E0","u4E3A","u5206","u6790","u5185","u5BB9","u4E0D","u591F","u8BE6","u7EC6","u6216",
      "u7814","u7A76","u65B9","u5411","u8FC7","u4E8E","u6A21","u7CCA","u3002","u8BF7","u8C03",
      "u6574","u63D0","u793A","u8BCD","u8BBE","u7F6E","u6216","u8FD4","u56DE","u4E0A","u4E00",
      "u6B65","u63D0","u4F9B","u66F4","u5145","u5206","u7684","u4FE1","u606F","u3002">>

\* src/brainstorm.py:417  (9 characters)
ErrReportPrefix ==
    <<"u751F","u6210","u62A5","u544A","u65F6","u51FA","u9519",":"," ">>

\* src/brainstorm.py:536  (12 characters)
DelimPrefix ==
    <<"\n","\n","=","=","=","=","="," ","u6587","u4EF6",":"," ">>

\* src/brainstorm.py:536  (8 characters)
DelimSuffix ==
    <<" ","=","=","=","=","=","\n","\n">>

\* src/brainstorm.py:448  (16 characters)
DefaultMaterialBackstory ==
    <<"u4F60","u662F","u4E00","u4E2A","u4E13","u4E1A","u7684","u7D20","u6750","u5185","u5BB9",
      "u5206","u6790","u52A9","u624B","u3002">>

\* src/brainstorm.py:450  (23 characters)
DefaultMaterialTask ==
    <<"u8BF7","u6839","u636E","u7528","u6237","u7684","u65B9","u5411","uFF0C","u63D0","u53D6",
      "u5E76","u5206","u6790","u6587","u6863","u4E2D","u7684","u5173","u952E","u4FE1","u606F",
      "u3002">>

\* src/brainstorm.py:452  (25 characters)
DefaultMaterialOutput ==
    <<"u4EE5","u6E05","u6670","u7684","u8981","u70B9","u5F62","u5F0F","u7EC4","u7EC7","u8F93",
      "u51FA","u5185","u5BB9","uFF0C","u7A81","u51FA","u5173","u952E","u4FE1","u606F","u548C",
      "u89C1","u89E3","u3002">>

\* src/brainstorm.py:456  (18 characters)
DefaultBrainstormBackstory ==
    <<"u4F60","u662F","u4E00","u4E2A","u4E13","u4E1A","u7684","u5934","u8111","u98CE","u66B4",
      "u62A5","u544A","u751F","u6210","u52A9","u624B","u3002">>

\* src/brainstorm.py:458  (36 characters)
DefaultBrainstormTask ==
    <<"u4F60","u7684","u4EFB","u52A1","u662F","u6839","u636E","u7D20","u6750","u5206","u6790",
      "u5185","u5BB9","u548C","u7528","u6237","u7684","u7814","u7A76","u65B9","u5411","uFF0C",
      "u751F","u6210","u4E00","u4EFD","u521B","u65B0","u7684","u5934","u8111","u98CE","u66B4",
      "u62A5","u544A","u3002">>

\* src/brainstorm.py:460  (32 characters)
DefaultBrainstormOutput ==
    <<"u62A5","u544A","u5E94","u5305","u62EC","u5173","u952E","u53D1","u73B0","u3001","u521B",
      "u65B0","u601D","u8DEF","u3001","u6F5C","u5728","u673A","u4F1A","u548C","u5177","u4F53",
      "u5EFA","u8BAE","uFF0C","u683C","u5F0F","u6E05","u6670","u6613","u8BFB","u3002">>
----------------------------------------------------------------------------
(* Uploaded files.  An uploaded file is a name and its bytes.  The bytes   *)
(* are described by what the readers of process_file get from them.        *)

\* page.extract_text() returning None: no text, and not a character
NoText == <<"None">>

\* The bytes of a file, as the readers see them:
\*   size0      os.path.getsize(path) == 0
\*   unreadable open(path) raises an OSError
\*   utf8       the bytes decode strictly as UTF-8
\*   text       the bytes decoded as UTF-8 with errors='ignore'
\*   lib        what the format library (python-docx, PyPDF2, PIL) does with
\*              the bytes: "ok", "simple" (the full DOCX walk raises, the
\*              paragraphs-only walk works) or "bad" (every parse raises)
\*   rich       the content_parts of the full DOCX walk, joined
\*   plain      the text_content of the simple DOCX walk, joined
\*   pages      page.extract_text() of every PDF page (NoText for None)
\*   dims, fmt  "<width>x<height>" and image.format
\*   err        str(e) of the exception the library raises on these bytes
BaseData ==
    [size0 |-> FALSE, unreadable |-> FALSE, utf8 |-> TRUE, text |-> <<>>,
     lib |-> "bad", rich |-> <<>>, plain |-> <<>>, pages |-> <<>>,
     dims |-> <<"2", "x", "3">>, fmt |-> <<"P", "N", "G">>,
     err |-> <<"b", "a", "d", " ", "f", "i", "l", "e">>]

EmptyFile == [BaseData EXCEPT !.size0 = TRUE]

BlankFile == [BaseData EXCEPT !.text = <<" ", "\n">>, !.lib = "ok"]

\* plain text of n characters, also readable by every format library
TextData(n) ==
    [BaseData EXCEPT !.text = Rep("x", n), !.lib = "ok",
                     !.rich = <<"*", "*">> \o Rep("r", n) \o <<"*", "*">>,
                     !.plain = Rep("r", n),
                     !.pages = <<Rep("p", n), <<"q">> >>]

\* a document the full DOCX walk cannot read; its text holds artifact tokens
BrokenDoc ==
    [BaseData EXCEPT !.utf8 = FALSE, !.lib = "simple",
                     !.text = Rep("z", 30),
                     !.plain = <<"a">> \o MarkToken \o Rep("b", 40)]

\* valid text whose DOCX rendering holds both artifact tokens and whose PDF
\* rendering has a page without a text layer
MarkedDoc ==
    [BaseData EXCEPT !.lib = "ok",
                     !.text = MarkToken \o Rep("y", 30),
                     !.rich = Rep("c", 30) \o MarkToken \o UnderlineToken,
                     !.plain = Rep("c", 30),
                     !.pages = <<Rep("p", 30), NoText>>]

\* bytes no library reads and that are not UTF-8 at all
Garbage == [BaseData EXCEPT !.utf8 = FALSE]

Locked == [BaseData EXCEPT !.unreadable = TRUE, !.text = Rep("x", 60)]

\* lengths of the plain texts of the model: around the 50-character
\* validation threshold of the aggregate and the 60 characters of the
\* end-to-end scenario
TextLengths == {26, 27, 60}

\* the bytes a user uploads in the model
Datas ==
    {EmptyFile, BlankFile, BrokenDoc, MarkedDoc, Garbage, Locked}
    \cup {TextData(n) : n \in TextLengths}

\* names a user can upload: the uploader accepts the extensions doc, docx,
\* pdf, jpg, jpeg, png and txt in any letter case (line 478)
NameA == <<"a", ".", "t", "x", "t">>
NameSp == <<"n", " ", "1", ".", "t", "x", "t">>
NameUs == <<"n", "_", "1", ".", "t", "x", "t">>
NameDocx == <<"b", ".", "D", "O", "C", "X">>
NameDoc == <<"c", ".", "d", "o", "c">>
NamePdf == <<"d", ".", "p", "d", "f">>
NamePng == <<"u6587", ".", "p", "n", "g">>
NameJpg == <<"e", ".", "j", "p", "g">>
NameJpeg == <<"f", "-", "2", ".", "J", "P", "E", "G">>

Names ==
    {NameA, NameSp, NameUs, NameDocx, NameDoc, NamePdf, NamePng, NameJpg, NameJpeg}

\* \w of Python's re on str: letters, digits and the underscore, of any script
WordChars ==
    {"a", "b", "c", "d", "e", "f", "g", "j", "n", "o", "p", "t", "x",
     "C", "D", "E", "G", "J", "O", "P", "X", "1", "2", "_", "u6587"}

\* str.lower() on the characters of the names
Lower(c) ==
    CASE c = "C" -> "c" [] c = "D" -> "d" [] c = "E" -> "e" [] c = "G" -> "g"
      [] c = "J" -> "j" [] c = "O" -> "o" [] c = "P" -> "p" [] c = "X" -> "x"
      [] OTHER -> c

\* re.sub(r'[^\w\-\.]', '_', file.name)
safe_filename(name) ==
    [i \in 1..Len(name) |->
        IF name[i] \in WordChars \cup {"-", "."} THEN name[i] ELSE "_"]

\* Path(file_path).suffix.lower().replace(".", "")
file_ext(path) ==
    LET dots == {i \in 1..Len(path) : path[i] = "."}
    IN  IF dots = {} THEN <<>>
        ELSE LET d == CHOOSE i \in dots : \A j \in dots : j <= i
             IN  IF d = 1 \/ d = Len(path) THEN <<>>
                 ELSE [k \in 1..(Len(path) - d) |-> Lower(path[d + k])]

Docx == <<"d", "o", "c", "x">>
Doc == <<"d", "o", "c">>
Pdf == <<"p", "d", "f">>
ImageExts == {<<"j", "p", "g">>, <<"j", "p", "e", "g">>, <<"p", "n", "g">>}

----------------------------------------------------------------------------
(* process_file: the extraction of one saved file.                         *)

\* a value returned, or an exception raised with message err
Return(v) == [raised |-> FALSE, value |-> v, err |-> <<>>]
Raise(e) == [raised |-> TRUE, value |-> <<>>, err |-> e]

\* str(e) of the TypeError of  None + "\n"
TypeErrorText == <<"N", "o", "n", "e", "+", "s", "t", "r">>

\* text += page.extract_text() + "\n"  for every page (lines 228-230)
RECURSIVE PdfText(_)
PdfText(pages) ==
    IF pages = <<>> THEN Return(<<>>)
    ELSE IF Head(pages) = NoText THEN Raise(TypeErrorText)
    ELSE LET rest == PdfText(Tail(pages))
         IN  IF rest.raised THEN rest
             ELSE Return(Head(pages) \o <<"\n">> \o rest.value)

\* the DOCX branch (lines 91-214)
ReadDocx(d) ==
    IF d.lib = "ok"
    THEN Return(Remove(Remove(d.rich, MarkToken), UnderlineToken))
    ELSE IF d.lib = "simple" THEN Return(d.plain)
    ELSE Return(ErrDocxFallbackPrefix \o d.err)

\* the DOC branch (lines 215-224)
ReadDoc(d) ==
    IF d.unreadable THEN Return(ErrDocPrefix \o d.err)
    ELSE Return(DocNotice \o d.text)

\* the PDF branch (lines 225-236)
ReadPdf(d) ==
    IF d.lib # "ok" THEN Return(ErrPdfPrefix \o d.err)
    ELSE LET t == PdfText(d.pages)
         IN  IF t.raised THEN Return(ErrPdfPrefix \o t.err) ELSE t

\* the image branch with PIL (lines 237-248)
ReadImage(d) ==
    IF d.lib # "ok" THEN Return(ErrImgPrefix \o d.err)
    ELSE Return(ImgInfoA \o d.dims \o ImgInfoB \o d.fmt \o ImgInfoC)

\* the text branch (lines 253-273): the bytes read as strict UTF-8 and, when
\* that fails to decode, as UTF-8 with errors='ignore'
ReadText(d) ==
    IF d.unreadable THEN Return(ErrTextPrefix \o d.err)
    ELSE Return(d.text)

\* the body of the outer try of process_file
ProcessBody(fs, file_path, file_type, lb) ==
    IF file_path \notin DOMAIN fs \/ fs[file_path].size0
    THEN Return(WarnEmptyPrefix \o file_path \o WarnEmptySuffix)
    ELSE LET d == fs[file_path]
         IN  IF file_type = Docx /\ lb.docx THEN ReadDocx(d)
             ELSE IF file_type = Doc THEN ReadDoc(d)
             ELSE IF file_type = Pdf /\ lb.pdf THEN ReadPdf(d)
             ELSE IF file_type \in ImageExts /\ lb.image THEN ReadImage(d)
             ELSE IF file_type \in ImageExts
             THEN Return(ImgNoLibA \o file_path \o ImgInfoC)
             ELSE ReadText(d)

\* the same extraction with the PDF reader left outside any try block
process_file_unguarded(fs, file_path, file_type, lb) ==
    IF file_type = Pdf /\ lb.pdf /\ file_path \in DOMAIN fs
       /\ ~fs[file_path].size0 /\ fs[file_path].lib # "ok"
    THEN Raise(fs[file_path].err)
    ELSE ProcessBody(fs, file_path, file_type, lb)

\* process_file(file_path, file_type): the outer except turns whatever the
\* body raises into the message of line 275
process_file(fs, file_path, file_type, lb) ==
    LET r == ProcessBody(fs, file_path, file_type, lb)
    IN  IF r.raised THEN Return(ErrProcessPrefix \o r.err) ELSE r

----------------------------------------------------------------------------
(* The completion provider and the two completion stages.                  *)

\* thresholds of the gates
MinAggregate == 50
MinStage1Result == 10
MinSimplified == 100
MinReport == 200

\* what the provider does with one request: it raises, or returns a text
Fails(e) == [fail |-> TRUE, text |-> <<>>, err |-> e]
Replies(t) == [fail |-> FALSE, text |-> t, err |-> <<>>]

\* lengths of the provider's replies: around the gates of the two stages
ReplyLengths == {0, 9, 10, 20, 99, 100, 199, 200}

Timeout == <<"t", "i", "m", "e", "o", "u", "t">>
Unauthorized == <<"4", "0", "1">>

ProviderOutcomes ==
    {Fails(Timeout), Fails(Unauthorized), Replies(<<" ">> \o Rep("s", 9) \o Rep(" ", 10))}
    \cup {Replies(Rep("s", n)) : n \in ReplyLengths}

\* what the environment does in one run of a stage: the OpenAI(...)
\* constructor of line 71 raises, or the client is built and the provider
\* answers its request with p
Environments ==
    {[ctor |-> "raises", p |-> Fails(<<>>)]}
    \cup {[ctor |-> "built", p |-> p] : p \in ProviderOutcomes}

\* a client factory that never looks at the key
get_langchain_llm_any_key(model_type, stream, ctor) ==
    IF ctor = "raises" THEN [outcome |-> "raised"]
    ELSE [outcome |-> "built", model_type |-> model_type, streaming |-> stream]

\* get_langchain_llm(model_type, stream): st.stop() when the key of the stage
\* is empty, else the client, unless its construction raises
get_langchain_llm(model_type, stream, ctor) ==
    LET api_key == IF model_type = "simplify" THEN key_simplify ELSE key_analysis
    IN  IF api_key = "" THEN [outcome |-> "stopped"]
        ELSE IF ctor = "raises" THEN [outcome |-> "raised"]
        ELSE [outcome |-> "built", model_type |-> model_type, streaming |-> stream]

\* the result of a stage function: how it ended, the value it returned, the
\* clients it built and the requests it sent to the provider
StageResult(outcome, value, clients, requests) ==
    [outcome |-> outcome, value |-> value, clients |-> clients, requests |-> requests]

\* clean_content of line 328
clean(content) == Remove(Remove(content, MarkToken), UnderlineToken)

\* a gate that measures the provider's text against the warning limit of line 336
Stage1GateAt50(result) ==
    IF result = <<>> \/ Len(Strip(result)) < MinAggregate
    THEN Stage1Sentinel ELSE result

\* the gate of lines 341-344 on the provider's text
Stage1Gate(result) ==
    IF result = <<>> \/ Len(Strip(result)) < MinStage1Result
    THEN Stage1Sentinel ELSE result

\* the texts interpolated into an f-string template are parsed by
\* PromptTemplate (lines 311, 388) as part of the template: a brace in them
\* that opens no variable of the template makes the template's validation or
\* its formatting (lines 321, 398) raise, in every version of the library
\* before the request is sent. The texts of the model hold no doubled brace
\* and no "{direction}", "{content}" or "{simplified_content}".
FormatRaises(text) == \E i \in 1..Len(text) : text[i] \in {"{", "}"}

\* str(e) of the exception of a template that does not format
TemplateError == <<"s", "c", "h", "e", "m", "a">>

\* a stage 1 that returns the provider's text as it is, and nothing when the
\* request fails
simplify_content_silent(content, direction, env) ==
    LET llm == get_langchain_llm("simplify", TRUE, env.ctor)
    IN  IF llm.outcome # "built"
        THEN StageResult(llm.outcome, <<>>, <<>>, <<>>)
        ELSE StageResult("returned", env.p.text, <<llm>>,
                         <<[stage |-> "simplify", streaming |-> llm.streaming,
                            backstory |-> prompts.material_backstory_prompt,
                            task |-> prompts.material_task_prompt,
                            output_format |-> prompts.material_output_prompt,
                            direction |-> direction, content |-> clean(content)]>>)

\* simplify_content(content, direction)
simplify_content(content, direction, env) ==
    LET llm == get_langchain_llm("simplify", TRUE, env.ctor)
    IN  IF llm.outcome # "built"
        THEN StageResult(llm.outcome, <<>>, <<>>, <<>>)
        ELSE IF FormatRaises(prompts.material_backstory_prompt
                             \o prompts.material_task_prompt
                             \o prompts.material_output_prompt)
        THEN StageResult("returned", ErrSimplifyPrefix \o TemplateError, <<llm>>, <<>>)
        ELSE LET request == [stage |-> "simplify", streaming |-> llm.streaming,
                             backstory |-> prompts.material_backstory_prompt,
                             task |-> prompts.material_task_prompt,
                             output_format |-> prompts.material_output_prompt,
                             direction |-> direction,
                             content |-> clean(content)]
             IN  IF env.p.fail
                 THEN StageResult("returned", ErrSimplifyPrefix \o env.p.err,
                                  <<llm>>, <<request>>)
                 ELSE StageResult("returned", Stage1Gate(env.p.text),
                                  <<llm>>, <<request>>)

\* generate_analysis without the check of line 359
generate_analysis_unchecked(simplified, direction, env) ==
    LET llm == get_langchain_llm("analysis", TRUE, env.ctor)
    IN  IF llm.outcome # "built"
        THEN StageResult(llm.outcome, <<>>, <<>>, <<>>)
        ELSE StageResult("returned",
                         IF env.p.fail THEN ErrReportPrefix \o env.p.err
                         ELSE IF Len(Strip(env.p.text)) < MinReport THEN Stage2FailMsg
                         ELSE env.p.text,
                         <<llm>>,
                         <<[stage |-> "analysis", streaming |-> llm.streaming,
                            backstory |-> prompts.brainstorm_backstory_prompt,
                            task |-> prompts.brainstorm_task_prompt,
                            output_format |-> prompts.brainstorm_output_prompt,
                            direction |-> direction, content |-> simplified]>>)

\* generate_analysis(simplified_content, direction)
generate_analysis(simplified, direction, env) ==
    LET llm == get_langchain_llm("analysis", TRUE, env.ctor)
    IN  IF llm.outcome # "built"
        THEN StageResult(llm.outcome, <<>>, <<>>, <<>>)
        ELSE IF simplified = <<>> \/ Len(Strip(simplified)) < MinSimplified
        THEN StageResult("returned", InsufficientMsg, <<llm>>, <<>>)
        ELSE IF FormatRaises(prompts.brainstorm_backstory_prompt
                             \o prompts.brainstorm_task_prompt
                             \o prompts.brainstorm_output_prompt
                             \o direction)
        THEN StageResult("returned", ErrReportPrefix \o TemplateError, <<llm>>, <<>>)
        ELSE LET request == [stage |-> "analysis", streaming |-> llm.streaming,
                             backstory |-> prompts.brainstorm_backstory_prompt,
                             task |-> prompts.brainstorm_task_prompt,
                             output_format |-> prompts.brainstorm_output_prompt,
                             direction |-> direction,
                             content |-> simplified]
             IN  IF env.p.fail
                 THEN StageResult("returned", ErrReportPrefix \o env.p.err,
                                  <<llm>>, <<request>>)
                 ELSE IF env.p.text = <<>> \/ Len(Strip(env.p.text)) < MinReport
                 THEN StageResult("returned", Stage2FailMsg, <<llm>>, <<request>>)
                 ELSE StageResult("returned", env.p.text, <<llm>>, <<request>>)

----------------------------------------------------------------------------
(* The stage-1 handler: save, extract, aggregate, validate, simplify.      *)

File(name, data) == [name |-> name, data |-> data]

\* the save loop of lines 501-509: every file is written to
\* temp_dir/safe_filename, a later file of the same safe name overwriting
RECURSIVE SaveFiles(_, _)
SaveFiles(uploaded, fs) ==
    IF uploaded = <<>> THEN fs
    ELSE LET path == safe_filename(Head(uploaded).name)
         IN  SaveFiles(Tail(uploaded),
                       [q \in DOMAIN fs \cup {path} |->
                           IF q = path THEN Head(uploaded).data ELSE fs[q]])

\* file_paths of lines 498-507; temp_dir is the same for all of them, so a path
\* is identified by its base name
FilePaths(uploaded) ==
    [i \in 1..Len(uploaded) |-> safe_filename(uploaded[i].name)]

\* the header of line 536
Delimiter(file_name) == DelimPrefix \o file_name \o DelimSuffix

\* an aggregation loop over the distinct paths only
RECURSIVE AggregateDistinct(_, _, _, _, _, _)
AggregateDistinct(fs, file_paths, lb, i, all_content, contents) ==
    IF i > Len(file_paths)
    THEN [raised |-> FALSE, all_content |-> all_content, contents |-> contents]
    ELSE IF \E j \in 1..(i - 1) : file_paths[j] = file_paths[i]
    THEN AggregateDistinct(fs, file_paths, lb, i + 1, all_content, contents)
    ELSE LET r == process_file(fs, file_paths[i], file_ext(file_paths[i]), lb)
         IN  IF r.raised
             THEN [raised |-> TRUE, all_content |-> all_content, contents |-> contents]
             ELSE AggregateDistinct(fs, file_paths, lb, i + 1,
                                    all_content \o Delimiter(file_paths[i]) \o r.value,
                                    Append(contents, r.value))

\* the aggregation loop of lines 516-536 from file i on; an exception of
\* process_file would leave the loop and the script
RECURSIVE Aggregate(_, _, _, _, _, _)
Aggregate(fs, file_paths, lb, i, all_content, contents) ==
    IF i > Len(file_paths)
    THEN [raised |-> FALSE, all_content |-> all_content, contents |-> contents]
    ELSE LET r == process_file(fs, file_paths[i], file_ext(file_paths[i]), lb)
         IN  IF r.raised
             THEN [raised |-> TRUE, all_content |-> all_content, contents |-> contents]
             ELSE Aggregate(fs, file_paths, lb, i + 1,
                            all_content \o Delimiter(file_paths[i]) \o r.value,
                            Append(contents, r.value))

\* the validation of line 545
TooShort(all_content) ==
    all_content = <<>> \/ Len(Strip(all_content)) < MinAggregate

\* the record of a script run that ran no handler
NoRun(op) ==
    [op |-> op, outcome |-> "done", why |-> "", uploaded |-> <<>>, fs |-> <<>>,
     file_paths |-> <<>>, contents |-> <<>>, all_content |-> <<>>,
     clients |-> <<>>, requests |-> <<>>, replies |-> <<>>, value |-> <<>>]

\* lines 582-587: the stage-2 section is rendered when stage 1 has run, and on
\* every render a non-empty direction is copied into the session state
Stage2Visible == show_analysis_section \/ simplified_content # <<>>

\* a section that never copies the direction into the session state
SyncDirectionNever(visible, direction, stored) == stored

SyncDirection(visible, direction, stored) ==
    IF visible /\ direction # <<>> /\ direction # stored THEN direction ELSE stored

\* a stage-2 button outside the section and never disabled
Stage2AlwaysClickable(direction) == TRUE

\* lines 582 and 589: the stage-2 button is rendered in the stage-2 section and
\* is disabled unless simplified_content and the stored direction are non-empty
Stage2Clickable(direction) ==
    /\ Stage2Visible
    /\ simplified_content # <<>>
    /\ direction # <<>>

\* the settings text areas (lines 613-655) after a run that st.stop() ended
\* before they were rendered: the framework keeps their values or drops them,
\* depending on its version, and a dropped text area is rendered next with
\* the stored fragment as its value
InputsAfterStop == {prompt_inputs, prompts}

\* the run of the script in which the stage-1 button was clicked (lines 488-579),
\* with the files in the uploader, under one of the environments envs
Stage1Run(uploaded, envs) ==
    /\ uploaded # <<>>
    /\ w_direction # <<>>
    /\ LET fs == SaveFiles(uploaded, <<>>)
           file_paths == FilePaths(uploaded)
           agg == Aggregate(fs, file_paths, libs, 1, <<>>, <<>>)
           base == [NoRun("stage1") EXCEPT
                       !.uploaded = uploaded, !.fs = fs, !.file_paths = file_paths,
                       !.contents = agg.contents, !.all_content = agg.all_content]
       IN  /\ ss_uploaded_files' = file_paths
           /\ ss_direction' = w_direction
           /\ IF agg.raised
              THEN /\ run' = [base EXCEPT !.outcome = "raised", !.why = "extraction"]
                   /\ UNCHANGED <<simplified_content, show_analysis_section,
                                  stage1_result, prompt_inputs>>
              ELSE IF TooShort(agg.all_content)
              THEN /\ run' = [base EXCEPT !.outcome = "stopped", !.why = "validation"]
                   /\ prompt_inputs' \in InputsAfterStop
                   /\ UNCHANGED <<simplified_content, show_analysis_section,
                                  stage1_result>>
              ELSE \E env \in envs :
                   LET s == simplify_content(agg.all_content, w_direction, env)
                   IN  IF s.outcome # "returned"
                       THEN /\ run' = [base EXCEPT !.outcome = s.outcome,
                                                   !.why = "client"]
                            /\ prompt_inputs' \in IF s.outcome = "stopped"
                                                  THEN InputsAfterStop
                                                  ELSE {prompt_inputs}
                            /\ UNCHANGED <<simplified_content, show_analysis_section,
                                           stage1_result>>
                       ELSE /\ run' = [base EXCEPT
                                          !.clients = s.clients,
                                          !.requests = s.requests,
                                          !.replies = IF s.requests = <<>> THEN <<>>
                                                      ELSE <<env.p>>,
                                          !.value = s.value]
                            /\ simplified_content' = s.value
                            /\ stage1_result' = s.value
                            /\ show_analysis_section' = TRUE
                            /\ UNCHANGED prompt_inputs
    /\ UNCHANGED <<key_simplify, key_analysis, libs, w_direction, analysis_report,
                   prompts, sx>>

\* the run of the script in which the stage-2 button was clicked (lines 582-602)
Stage2Run(env) ==
    LET direction == SyncDirection(Stage2Visible, w_direction, ss_direction)
        g == generate_analysis(simplified_content, direction, env)
    IN  /\ Stage2Clickable(direction)
        /\ ss_direction' = direction
        /\ run' = [NoRun("stage2") EXCEPT
                      !.outcome = IF g.outcome = "returned" THEN "done" ELSE g.outcome,
                      !.why = IF g.outcome = "returned" THEN "" ELSE "client",
                      !.clients = g.clients, !.requests = g.requests,
                      !.replies = IF g.requests = <<>> THEN <<>> ELSE <<env.p>>,
                      !.value = g.value]
        /\ analysis_report' =
               IF g.outcome = "returned" THEN g.value ELSE analysis_report
        /\ prompt_inputs' \in IF g.outcome = "stopped" THEN InputsAfterStop
                              ELSE {prompt_inputs}
        /\ UNCHANGED <<key_simplify, key_analysis, libs, w_direction,
                       ss_uploaded_files, simplified_content,
                       show_analysis_section, prompts, stage1_result, sx>>

----------------------------------------------------------------------------
(* The other script runs: editing a widget, saving the prompts.            *)

Directions == {<<>>, <<"A", "I">>, <<"b", "i", "o">>}

\* a rerun after the direction text area changed
EditDirection ==
    \E d \in Directions :
        /\ d # w_direction
        /\ w_direction' = d
        /\ ss_direction' = SyncDirection(Stage2Visible, d, ss_direction)
        /\ run' = NoRun("render")
        /\ UNCHANGED <<key_simplify, key_analysis, libs, ss_uploaded_files,
                       simplified_content, analysis_report, show_analysis_section,
                       prompts, prompt_inputs, stage1_result, sx>>

PromptKeys ==
    {"material_backstory_prompt", "material_task_prompt", "material_output_prompt",
     "brainstorm_backstory_prompt", "brainstorm_task_prompt",
     "brainstorm_output_prompt"}

\* the initial prompt fragments of lines 447-460
DefaultPrompts ==
    [material_backstory_prompt |-> DefaultMaterialBackstory,
     material_task_prompt |-> DefaultMaterialTask,
     material_output_prompt |-> DefaultMaterialOutput,
     brainstorm_backstory_prompt |-> DefaultBrainstormBackstory,
     brainstorm_task_prompt |-> DefaultBrainstormTask,
     brainstorm_output_prompt |-> DefaultBrainstormOutput]

\* what an operator types into a settings text area
PromptValues == {<<"P", "1">>}

\* a rerun after the settings text area k changed to v (lines 613-655)
EditPromptInput(k, v) ==
    /\ v # prompt_inputs[k]
    /\ prompt_inputs' = [prompt_inputs EXCEPT ![k] = v]
    /\ ss_direction' = SyncDirection(Stage2Visible, w_direction, ss_direction)
    /\ run' = NoRun("render")
    /\ UNCHANGED <<key_simplify, key_analysis, libs, w_direction,
                   ss_uploaded_files, simplified_content, analysis_report,
                   show_analysis_section, prompts, stage1_result, sx>>

\* a save that stores the fragments of stage 1 only
save_material_prompts ==
    [k \in PromptKeys |->
        IF k \in {"material_backstory_prompt", "material_task_prompt",
                  "material_output_prompt"}
        THEN prompt_inputs[k] ELSE prompts[k]]

\* save_prompts (lines 420-432), in the run in which the save button was clicked
save_prompts == [k \in PromptKeys |-> prompt_inputs[k]]

SavePrompts ==
    /\ prompts' = save_prompts
    /\ ss_direction' = SyncDirection(Stage2Visible, w_direction, ss_direction)
    /\ run' = NoRun("save")
    /\ UNCHANGED <<key_simplify, key_analysis, libs, w_direction, ss_uploaded_files,
                   simplified_content, analysis_report, show_analysis_section,
                   prompt_inputs, stage1_result, sx>>

----------------------------------------------------------------------------
(* The session: any sequence of interactions.                              *)

Keys == {"", "sk-or"}

AllLibs == [docx |-> TRUE, pdf |-> TRUE, image |-> TRUE]

NoSanitizer == [step |-> "off", x |-> <<>>, y |-> <<>>, z |-> <<>>]

\* lines 434-460: the session state of a new session
NewSession ==
    /\ ss_uploaded_files = <<>>
    /\ ss_direction = <<>>
    /\ simplified_content = <<>>
    /\ analysis_report = <<>>
    /\ show_analysis_section = FALSE
    /\ prompts = DefaultPrompts
    /\ prompt_inputs = DefaultPrompts
    /\ run = NoRun("start")
    /\ stage1_result = <<>>

Init ==
    /\ key_simplify \in Keys
    /\ key_analysis \in Keys
    /\ libs = AllLibs
    /\ w_direction = <<>>
    /\ NewSession
    /\ sx = NoSanitizer

\* the batches a user uploads in the session: one that passes the validation
\* and one that does not
SessionBatches == {<<File(NameA, TextData(60))>>, <<File(NameA, TextData(26))>>}

\* what the environment does in the session
SessionEnvironments ==
    {[ctor |-> "raises", p |-> Fails(<<>>)]}
    \cup {[ctor |-> "built", p |-> p] :
             p \in {Fails(Timeout), Replies(Rep("s", 9)), Replies(Rep("s", 99)),
                    Replies(Rep("s", 100)), Replies(Rep("s", 200))}}

\* the settings text areas the operator edits in the session
SessionPromptKeys == {"material_task_prompt", "brainstorm_task_prompt"}

ClickStage1 ==
    \E uploaded \in SessionBatches : Stage1Run(uploaded, SessionEnvironments)

ClickStage2 ==
    \E env \in SessionEnvironments : Stage2Run(env)

EditPrompt ==
    \E k \in SessionPromptKeys : \E v \in PromptValues \cup {DefaultPrompts[k]} :
        EditPromptInput(k, v)

Next == EditDirection \/ ClickStage1 \/ ClickStage2 \/ EditPrompt \/ SavePrompts

Spec == Init /\ [][Next]_vars

----------------------------------------------------------------------------
(* The settings: edits and saves of the prompt fragments between runs of   *)
(* the two stages, with both keys present and a provider that answers.     *)

SettingsDirections == {<<"A", "I">>, <<"{", "x", "}">>}

InitSettings ==
    /\ key_simplify = "sk-or"
    /\ key_analysis = "sk-or"
    /\ libs = AllLibs
    /\ w_direction \in SettingsDirections
    /\ NewSession
    /\ sx = NoSanitizer

SettingsEnvironments == {[ctor |-> "built", p |-> Replies(Rep("s", 200))]}

\* what the operator types into the settings text areas
SettingsValues(k) ==
    IF k = "material_task_prompt"
    THEN {DefaultPrompts[k], <<"P", "1">>, <<"{", "x", "}">>}
    ELSE {DefaultPrompts[k], <<"P", "2">>}

SettingsStage1 ==
    Stage1Run(<<File(NameA, TextData(60))>>, SettingsEnvironments)

SettingsStage2 == \E env \in SettingsEnvironments : Stage2Run(env)

SettingsEdit ==
    \E k \in SessionPromptKeys : \E v \in SettingsValues(k) : EditPromptInput(k, v)

NextSettings == SettingsStage1 \/ SettingsStage2 \/ SettingsEdit \/ SavePrompts

SpecSettings == InitSettings /\ [][NextSettings]_vars

----------------------------------------------------------------------------
(* One stage-1 run on every batch of files, under every installation.      *)

Files ==
    {File(NameA, TextData(60)), File(NameA, TextData(26)), File(NameA, TextData(27)),
     File(NameSp, BlankFile), File(NameUs, EmptyFile), File(NameDocx, MarkedDoc),
     File(NameDocx, BrokenDoc), File(NamePdf, Garbage)}

Batches == UNION {[1..n -> Files] : n \in 1..MaxFiles}

InitStage1 ==
    /\ key_simplify \in Keys
    /\ key_analysis = "sk-or"
    /\ libs \in [docx : BOOLEAN, pdf : BOOLEAN, image : BOOLEAN]
    /\ w_direction = <<"A", "I">>
    /\ NewSession
    /\ sx = NoSanitizer

UploadAndAnalyse ==
    /\ run.op = "start"
    /\ \E uploaded \in Batches : Stage1Run(uploaded, Environments)

NextStage1 == UploadAndAnalyse

SpecStage1 == InitStage1 /\ [][NextStage1]_vars

----------------------------------------------------------------------------
(* The extraction of every kind of file: one stage-1 run on a batch of the *)
(* file and a plain-text file after it, under every installation.          *)

InitExtract ==
    /\ key_simplify = "sk-or"
    /\ key_analysis = "sk-or"
    /\ libs \in [docx : BOOLEAN, pdf : BOOLEAN, image : BOOLEAN]
    /\ w_direction = <<"A", "I">>
    /\ NewSession
    /\ sx = NoSanitizer

ExtractEnvironments == {[ctor |-> "built", p |-> Replies(Rep("s", 100))]}

UploadAndExtract ==
    /\ run.op = "start"
    /\ \E name \in Names, data \in Datas :
           Stage1Run(<<File(name, data), File(NameA, TextData(60))>>,
                     ExtractEnvironments)

NextExtract == UploadAndExtract

SpecExtract == InitExtract /\ [][NextExtract]_vars

----------------------------------------------------------------------------
(* The sanitizer as a pure function, applied twice to every input.         *)

Chunks ==
    {MarkToken, UnderlineToken, <<"{", ".", "m", "a">>, <<"r", "k", "}">>,
     <<"{", ".", "u", "n", "d", "e", "r">>, <<"l", "i", "n", "e", "}">>,
     <<"a">>, <<" ">>}

SanitizerInputs == {Concat(cs) : cs \in UNION {[1..n -> Chunks] : n \in 0..MaxChunks}}

InitSanitize ==
    /\ key_simplify = "sk-or"
    /\ key_analysis = "sk-or"
    /\ libs = AllLibs
    /\ w_direction = <<>>
    /\ NewSession
    /\ \E x \in SanitizerInputs : sx = [step |-> "input", x |-> x, y |-> <<>>, z |-> <<>>]

SanitizeOnce ==
    /\ sx.step = "input"
    /\ sx' = [sx EXCEPT !.step = "once", !.y = clean(sx.x)]
    /\ UNCHANGED <<key_simplify, key_analysis, libs, w_direction, ss_uploaded_files,
                   ss_direction, simplified_content, analysis_report,
                   show_analysis_section, prompts, prompt_inputs, run,
                   stage1_result>>

SanitizeAgain ==
    /\ sx.step = "once"
    /\ sx' = [sx EXCEPT !.step = "twice", !.z = clean(sx.y)]
    /\ UNCHANGED <<key_simplify, key_analysis, libs, w_direction, ss_uploaded_files,
                   ss_direction, simplified_content, analysis_report,
                   show_analysis_section, prompts, prompt_inputs, run,
                   stage1_result>>

NextSanitize == SanitizeOnce \/ SanitizeAgain

SpecSanitize == InitSanitize /\ [][NextSanitize]_vars

----------------------------------------------------------------------------
(* Properties.                                                             *)

Stage1Ran == run.op = "stage1"
Stage2Ran == run.op = "stage2"

S(n) == Rep("s", n)

\* C1: whenever generate_analysis is invoked, a stage-1 run has completed
\* and stored its result: simplified_content is the non-empty text the latest
\* completed simplify_content returned, and the stored direction is non-empty.
C1_Stage2AfterStage1 ==
    Stage2Ran =>
        /\ show_analysis_section
        /\ stage1_result # <<>>
        /\ simplified_content = stage1_result
        /\ ss_direction # <<>>

C1_Witness ==
    /\ Stage2Ran
    /\ run.outcome = "done"
    /\ Len(run.requests) = 1
    /\ run.requests[1].content = simplified_content
    /\ run.requests[1].direction = <<"b", "i", "o">>
    /\ prompts # DefaultPrompts

\* C2: when the stage-1 request fails, the client is rebuilt without
\* streaming and the request is reissued exactly once; when both requests
\* fail, simplify_content returns the fixed stage-1 sentinel.
C2_RetryOnceThenSentinel ==
    (Stage1Ran /\ run.replies # <<>> /\ run.replies[1].fail) =>
        /\ Len(run.requests) = 2
        /\ Len(run.clients) = 2
        /\ ~run.clients[2].streaming
        /\ (\A i \in 1..Len(run.replies) : run.replies[i].fail)
               => run.value = Stage1Sentinel

\* the stripped length of a text is below the stage-2 minimum
Short(text) == Len(Strip(text)) < MinSimplified

\* C3 as stated: with a simplified_content of stripped length below 100,
\* generate_analysis returns the fixed "insufficient" message and sends no
\* request to the provider.
C3_ShortInputReturnsMessage ==
    (Stage2Ran /\ Short(simplified_content)) =>
        /\ run.requests = <<>>
        /\ run.outcome = "done"
        /\ run.value = InsufficientMsg

\* C3 amended: with a simplified_content of stripped length below 100,
\* generate_analysis sends no request to the provider; it returns the fixed
\* "insufficient" message whenever it returns, and it does not return in
\* exactly two cases: the stage-2 key is absent (the run is stopped) or the
\* construction of the client raises.  The stage-1 sentinel is such a text.
C3_ShortInputNeverReachesProvider ==
    /\ Short(Stage1Sentinel)
    /\ (Stage2Ran /\ Short(simplified_content)) =>
           /\ run.requests = <<>>
           /\ run.outcome = "done" =>
                  run.value = InsufficientMsg /\ analysis_report = InsufficientMsg
           /\ run.outcome = "stopped" <=> key_analysis = ""
           /\ run.outcome \in {"done", "stopped", "raised"}
    /\ (Stage2Ran /\ run.requests # <<>>) => ~Short(run.requests[1].content)

C3_Witness ==
    /\ Stage2Ran
    /\ simplified_content = Stage1Sentinel
    /\ run.value = InsufficientMsg
    /\ run.requests = <<>>

\* the stripped total length of the texts extracted from the documents
DocumentsTextLength == Len(Strip(Concat(run.contents)))

\* C4: a stage-1 run fails the validation if and only if the stripped total
\* length of the documents' text is below 50 characters.
C4_RejectedIffTextBelow50 ==
    Stage1Ran =>
        ((run.outcome = "stopped" /\ run.why = "validation")
            <=> DocumentsTextLength < MinAggregate)

\* the names of the delimiter blocks of a text, in the order they appear:
\* every "\n\n===== <file>: " up to the next " =====\n\n"
RECURSIVE DelimiterNames(_, _)
DelimiterNames(s, i) ==
    LET starts == {j \in i..(Len(s) - Len(DelimPrefix) + 1) :
                      OccursAt(s, DelimPrefix, j)}
    IN  IF starts = {} THEN <<>>
        ELSE LET m == CHOOSE j \in starts : \A k \in starts : j <= k
                 from == m + Len(DelimPrefix)
                 ends == {j \in from..(Len(s) - Len(DelimSuffix) + 1) :
                             OccursAt(s, DelimSuffix, j)}
             IN  IF ends = {} THEN <<>>
                 ELSE LET e == CHOOSE j \in ends : \A k \in ends : j <= k
                      IN  <<SubSeq(s, from, e - 1)>>
                              \o DelimiterNames(s, e + Len(DelimSuffix))

\* C5: the aggregated content holds exactly one delimiter block per uploaded
\* file, in upload order, each naming the file as it was saved; also for
\* zero-byte files, failed extractions and files of the same name.
C5_OneDelimiterPerFileInOrder ==
    Stage1Ran =>
        DelimiterNames(run.all_content, 1) =
            [i \in 1..Len(run.uploaded) |-> safe_filename(run.uploaded[i].name)]

C5_Witness ==
    /\ Stage1Ran
    /\ Len(run.uploaded) = 2
    /\ run.uploaded[1].data.size0
    /\ run.uploaded[2] = File(NamePdf, Garbage)
    /\ libs.pdf
    /\ Len(DelimiterNames(run.all_content, 1)) = 2

\* the extraction of a saved file fails for good: the file is empty, it
\* cannot be opened, or its format library raises and no reader is left
ExtractionFails(d, ext, lb) ==
    \/ d.size0
    \/ ext = Docx /\ lb.docx /\ d.lib = "bad"
    \/ ext = Doc /\ d.unreadable
    \/ ext = Pdf /\ lb.pdf /\ (d.lib # "ok" \/ \E k \in 1..Len(d.pages) : d.pages[k] = NoText)
    \/ ext \in ImageExts /\ lb.image /\ d.lib # "ok"
    \/ /\ ~(ext = Docx /\ lb.docx) /\ ext # Doc /\ ~(ext = Pdf /\ lb.pdf)
       /\ ext \notin ImageExts
       /\ d.unreadable

C7_SanitizeIdempotent == sx.step = "twice" => sx.z = sx.y

\* the end-to-end scenario: one plain-text file of 60 characters
Scenario == run.uploaded = <<File(NameA, TextData(60))>>

\* C8 as stated: in the scenario, a 20-character reply of the provider is
\* rejected by the gate of stage 1, which returns the sentinel.
C8_TwentyCharactersRejected ==
    (Stage1Ran /\ Scenario /\ run.replies = <<Replies(S(20))>>)
        => run.value = Stage1Sentinel

\* C8 amended: in the scenario the aggregate passes the validation and
\* stage 1 sends one request to the provider (when the client is built); the
\* gate returns the sentinel for a reply of stripped length below 10 and the
\* reply itself otherwise, so a 20-character reply is returned and stored.
C8_GateRejectsBelow10 ==
    (Stage1Ran /\ Scenario) =>
        /\ run.why # "validation"
        /\ run.outcome = "done" =>
               /\ Len(run.requests) = 1
               /\ simplified_content = run.value
               /\ \A n \in ReplyLengths :
                      run.replies = <<Replies(S(n))>> =>
                          run.value = IF n < 10 THEN Stage1Sentinel ELSE S(n)

C8_Witness ==
    /\ Stage1Ran
    /\ Scenario
    /\ run.replies = <<Replies(S(20))>>
    /\ simplified_content = S(20)

\* C9: a run of a stage whose key is absent is stopped: it builds no client,
\* sends no request and leaves the result of the stage as it was; the key of
\* the other stage plays no part.
C9_AbsentKeyBlocksStage ==
    [][/\ (run'.op = "stage1" /\ key_simplify = "") =>
              /\ run'.outcome = "stopped"
              /\ run'.clients = <<>> /\ run'.requests = <<>>
              /\ simplified_content' = simplified_content
       /\ (run'.op = "stage2" /\ key_analysis = "") =>
              /\ run'.outcome = "stopped"
              /\ run'.clients = <<>> /\ run'.requests = <<>>
              /\ analysis_report' = analysis_report]_vars

C9_Witness ==
    /\ Stage2Ran
    /\ key_analysis = ""
    /\ key_simplify # ""
    /\ run.outcome = "stopped"
    /\ analysis_report = <<>>

\* C10: no exception leaves a completion stage: simplify_content and
\* generate_analysis return a message whatever fails inside them, the
\* construction of the client included.
C10_NoExceptionLeavesStage ==
    (Stage1Ran \/ Stage2Ran) => run.outcome # "raised"

\* C11: simplified_content changes only in a stage-1 run that completed; a
\* stage-2 run leaves it as it was, sends no stage-1 request, and its request
\* carries the cached simplified_content and the stored direction, which is
\* not empty; while the stage-2 section is visible the stored direction is
\* the direction of the text area when that is not empty, and an emptied
\* text area leaves the stored direction as it was.
C11_Stage2UsesCachedResult ==
    [][/\ simplified_content' # simplified_content
           => (run'.op = "stage1" /\ run'.outcome = "done"
               /\ simplified_content' = run'.value)
       /\ run'.op \in {"stage2", "render", "save"}
           => (simplified_content' = simplified_content
               /\ stage1_result' = stage1_result)
       /\ run'.op = "stage2"
           => (/\ ss_direction' # <<>>
               /\ \A i \in 1..Len(run'.requests) :
                      /\ run'.requests[i].stage = "analysis"
                      /\ run'.requests[i].content = simplified_content
                      /\ run'.requests[i].direction = ss_direction')
       /\ (Stage2Visible' /\ w_direction' # <<>>) => ss_direction' = w_direction'
       /\ w_direction' = <<>> => ss_direction' = ss_direction
      ]_vars

\* stage 2 has run on the cached result of stage 1 after the direction was
\* edited and then emptied: its request carries the last non-empty direction
C11_Witness ==
    /\ Stage2Ran
    /\ run.outcome = "done"
    /\ Len(run.requests) = 1
    /\ run.requests[1].direction = <<"b", "i", "o">>
    /\ run.requests[1].content = S(100)
    /\ simplified_content = S(100)
    /\ stage1_result = S(100)
    /\ analysis_report = Stage2FailMsg
    /\ w_direction = <<>>

\* the fragments a stage builds its template from, as stored in the state
MaterialFragments(ps) ==
    <<ps.material_backstory_prompt, ps.material_task_prompt, ps.material_output_prompt>>

BrainstormFragments(ps) ==
    <<ps.brainstorm_backstory_prompt, ps.brainstorm_task_prompt,
      ps.brainstorm_output_prompt>>

RequestFragments(request) ==
    <<request.backstory, request.task, request.output_format>>

\* C12: a save stores the current value of each of the six settings inputs,
\* no other run changes a stored fragment, and a run of a stage builds its
\* request from the three fragments stored for that stage at the time of the
\* run; so a run uses the fragments of the latest save (the defaults when
\* nothing was saved), whatever was typed since.
C12_RunsUseSavedPrompts ==
    [][/\ run'.op = "save" => \A k \in PromptKeys : prompts'[k] = prompt_inputs[k]
       /\ run'.op # "save" => prompts' = prompts
       /\ run'.op = "stage1"
           => \A i \in 1..Len(run'.requests) :
                  RequestFragments(run'.requests[i]) = MaterialFragments(prompts)
       /\ run'.op = "stage2"
           => \A i \in 1..Len(run'.requests) :
                  RequestFragments(run'.requests[i]) = BrainstormFragments(prompts)
      ]_vars

\* both task fragments were edited and saved, stage 1 ran, the stage-1 task
\* was edited again without a save, and stage 2 ran on the saved fragments
C12_Witness ==
    /\ Stage2Ran
    /\ Len(run.requests) = 1
    /\ run.requests[1].task = <<"P", "2">>
    /\ run.requests[1].backstory = DefaultBrainstormBackstory
    /\ prompts.material_task_prompt = <<"P", "1">>
    /\ prompt_inputs.material_task_prompt = <<"{", "x", "}">>
    /\ simplified_content = S(200)

\* C13: in every step of the session, (1) a completed stage-1 run stores the
\* value it returned, which is not empty, and a non-empty simplified_content
\* never becomes empty; (2) a completed stage-2 run stores the value it
\* returned, which is not empty; (3) a non-empty analysis_report comes with a
\* non-empty simplified_content.
C13_StoredResultsNonEmpty ==
    [][/\ (run'.op = "stage1" /\ run'.outcome = "done")
           => (simplified_content' = run'.value /\ simplified_content' # <<>>)
       /\ simplified_content # <<>> => simplified_content' # <<>>
       /\ (run'.op = "stage2" /\ run'.outcome = "done")
           => (analysis_report' = run'.value /\ analysis_report' # <<>>)
       /\ analysis_report' # <<>> => simplified_content' # <<>>
      ]_vars

\* stage 1 stored the error text of a failed request after an earlier
\* stage-2 run had stored a report
C13_Witness ==
    /\ Stage1Ran
    /\ run.outcome = "done"
    /\ run.replies = <<Fails(Timeout)>>
    /\ simplified_content = ErrSimplifyPrefix \o Timeout
    /\ analysis_report = S(200)

\* the extraction of the bytes of the i-th uploaded file, saved alone
OwnExtraction(uploaded, i, lb) ==
    LET path == safe_filename(uploaded[i].name)
    IN  process_file(SaveFiles(<<uploaded[i]>>, <<>>), path, file_ext(path), lb).value

\* C14: for every batch, the text aggregated for the i-th file is the
\* extraction of the bytes the i-th file was uploaded with, also when two
\* files of the batch are saved under the same name.
C14_EachFileOwnBytes ==
    Stage1Ran =>
        /\ Len(run.contents) = Len(run.uploaded)
        /\ \A i \in 1..Len(run.contents) :
               run.contents[i] = OwnExtraction(run.uploaded, i, libs)

====
